---------------------------- MODULE Spec2Model ----------------------------
(***************************************************************************)
(* Model of src/main.py: GitHubContributorAnalyzer (rate-limit aware HTTP  *)
(* wrapper, contributor pagination, enrichment, social links, sort) and    *)
(* extract_repo_info with the module top level that drives them.           *)
(*                                                                         *)
(* Python values are modelled as follows.                                  *)
(*   str            a sequence of one-character strings                    *)
(*   Optional[int]  <<>> for None, <<n>> for the integer n                 *)
(*   JSON value     a tagged record: JNull, JStr(s), JList(items),         *)
(*                  JDict(f) with f a function from key names to values    *)
(***************************************************************************)
EXTENDS Integers, Sequences, FiniteSets, TLC

(***************************************************************************)
(* Bounds of the model.                                                    *)
(***************************************************************************)
MaxNameLen == 2
MaxFullPages == 2
MaxContributors == 2
MaxSorted == 4
MaxRateLimited == 2
MaxLatency == 1

(***************************************************************************)
(* Python str operations on sequences of characters.                       *)
(***************************************************************************)
StartsWith(s, p) ==
    /\ Len(p) <= Len(s)
    /\ SubSeq(s, 1, Len(p)) = p

EndsWith(s, p) ==
    /\ Len(p) <= Len(s)
    /\ SubSeq(s, Len(s) - Len(p) + 1, Len(s)) = p

IsSpace(c) == c \in {" ", "\t", "\n"}

RECURSIVE LStrip(_)
LStrip(s) ==
    IF s # <<>> /\ IsSpace(Head(s)) THEN LStrip(Tail(s)) ELSE s

RECURSIVE RStrip(_)
RStrip(s) ==
    IF s # <<>> /\ IsSpace(s[Len(s)]) THEN RStrip(SubSeq(s, 1, Len(s) - 1)) ELSE s

\* str.strip()
Strip(s) == RStrip(LStrip(s))

\* str.replace(old, new): every non-overlapping occurrence, left to right
RECURSIVE Replace(_, _, _)
Replace(s, old, new) ==
    IF s = <<>> THEN <<>>
    ELSE IF StartsWith(s, old)
         THEN new \o Replace(SubSeq(s, Len(old) + 1, Len(s)), old, new)
         ELSE <<Head(s)>> \o Replace(Tail(s), old, new)

\* str.split(sep): the pieces between occurrences of sep, empty pieces kept
RECURSIVE SplitFrom(_, _, _)
SplitFrom(s, sep, cur) ==
    IF s = <<>> THEN <<cur>>
    ELSE IF StartsWith(s, sep)
         THEN <<cur>> \o SplitFrom(SubSeq(s, Len(sep) + 1, Len(s)), sep, <<>>)
         ELSE SplitFrom(Tail(s), sep, Append(cur, Head(s)))

Split(s, sep) == SplitFrom(s, sep, <<>>)

\* substring test: sub in s
RECURSIVE Contains(_, _)
Contains(s, sub) ==
    IF StartsWith(s, sub) THEN TRUE
    ELSE IF s = <<>> THEN FALSE
    ELSE Contains(Tail(s), sub)

UpperChars == <<"A","B","C","D","E","F","G","H","I","J","K","L","M","N","O","P","Q","R","S","T","U","V","W","X","Y","Z">>
LowerChars == <<"a","b","c","d","e","f","g","h","i","j","k","l","m","n","o","p","q","r","s","t","u","v","w","x","y","z">>

LowerChar(c) ==
    IF \E k \in 1..Len(UpperChars) : UpperChars[k] = c
    THEN LowerChars[CHOOSE k \in 1..Len(UpperChars) : UpperChars[k] = c]
    ELSE c

\* str.lower()
Lower(s) == [k \in 1..Len(s) |-> LowerChar(s[k])]

(***************************************************************************)
(* extract_repo_info                                                       *)
(***************************************************************************)
SlashStr == <<"/">>
HttpsScheme == <<"h","t","t","p","s",":","/","/">>
HttpsPrefix == HttpsScheme \o <<"g","i","t","h","u","b",".","c","o","m","/">>
SshPrefix == <<"g","i","t","@","g","i","t","h","u","b",".","c","o","m",":">>

\* a parser that forgets to trim
CleanUrlNoStrip(repo_url) == repo_url

\* url.strip()
CleanUrl(repo_url) == Strip(repo_url)

\* if url.endswith('/'): url = url[:-1]
DropTrailingSlash(url) ==
    IF EndsWith(url, SlashStr) THEN SubSeq(url, 1, Len(url) - 1) ELSE url

\* the three branches that compute parts
RepoParts(url) ==
    IF StartsWith(url, HttpsScheme)
    THEN Split(Replace(url, HttpsPrefix, <<>>), SlashStr)
    ELSE IF StartsWith(url, SshPrefix)
         THEN Split(Replace(url, SshPrefix, <<>>), SlashStr)
         ELSE Split(url, SlashStr)

\* a parser that accepts a single segment
extract_repo_info_lenient(repo_url) ==
    LET parts == RepoParts(DropTrailingSlash(CleanUrl(repo_url)))
    IN  IF Len(parts) >= 1
        THEN [ok |-> TRUE, owner |-> parts[1], name |-> parts[Len(parts)]]
        ELSE [ok |-> FALSE, owner |-> <<>>, name |-> <<>>]

\* the result: ok with (owner, name), or the ValueError
extract_repo_info(repo_url) ==
    LET parts == RepoParts(DropTrailingSlash(CleanUrl(repo_url)))
    IN  IF Len(parts) >= 2
        THEN [ok |-> TRUE, owner |-> parts[1], name |-> parts[2]]
        ELSE [ok |-> FALSE, owner |-> <<>>, name |-> <<>>]

(***************************************************************************)
(* JSON values and Python's view of them.                                  *)
(***************************************************************************)
JNull == [t |-> "null"]
JStr(s) == [t |-> "str", s |-> s]
JInt(n) == [t |-> "int", n |-> n]
JList(items) == [t |-> "list", items |-> items]
JDict(d) == [t |-> "dict", d |-> d]
\* the body of a response that is not JSON at all
NotJson == [t |-> "notjson"]

EmptyDict == <<>>

\* bool(v)
Truthy(v) ==
    CASE v.t = "null" -> FALSE
      [] v.t = "str" -> v.s # <<>>
      [] v.t = "int" -> v.n # 0
      [] v.t = "list" -> v.items # <<>>
      [] v.t = "dict" -> DOMAIN v.d # {}
      [] OTHER -> TRUE

\* d.get(key, default) on a dict d
DictGet(d, key, default) ==
    IF key \in DOMAIN d THEN d[key] ELSE default

\* d[key] = value
DictPut(d, key, value) ==
    [k \in DOMAIN d \cup {key} |-> IF k = key THEN value ELSE d[k]]

\* None and int as Optional[int]
None == <<>>
Some(n) == <<n>>

(***************************************************************************)
(* _make_request: the pieces of its code.                                  *)
(***************************************************************************)
\* the 5 seconds added to reset - now (lines 44 and 63)
SafetyMargin == 5

\* a pre-check that lets the last request of the quota through
QuotaExhaustedBelowOne(remaining) ==
    /\ remaining # None
    /\ remaining[1] < 1

\* line 41: rate_limit_remaining is not None and rate_limit_remaining <= 1
QuotaExhausted(remaining) ==
    /\ remaining # None
    /\ remaining[1] <= 1

\* lines 42-44 and 61-63: (reset_time - now).total_seconds() + 5
SecondsUntilReset(reset, clock) == reset[1] - clock + SafetyMargin

\* lines 41-48: the seconds the pre-check sleeps before the request is sent
PreCheckSleep(remaining, reset, clock) ==
    IF QuotaExhausted(remaining) /\ SecondsUntilReset(reset, clock) > 0
    THEN SecondsUntilReset(reset, clock)
    ELSE 0

\* lines 53-56: int(response.headers.get(name, 0))
HeaderInt(h) == IF h = None THEN Some(0) ELSE h

\* an update that is skipped for the responses reported as errors (line 69)
UpdatedRateLimitNotOnError(resp, remaining, reset) ==
    IF resp.status \in {200, 403}
    THEN <<HeaderInt(resp.remaining), HeaderInt(resp.reset)>>
    ELSE <<remaining, reset>>

\* lines 52-56: the new (rate_limit_remaining, rate_limit_reset), whatever the status
UpdatedRateLimit(resp, remaining, reset) ==
    <<HeaderInt(resp.remaining), HeaderInt(resp.reset)>>

RateLimitText == <<"r","a","t","e"," ","l","i","m","i","t">>

\* line 60, right operand: 'rate limit' in response.json().get('message', '').lower()
\* ok = FALSE when evaluating it raises (body not JSON, not a mapping, message not a string)
RateLimitMessage(body) ==
    IF body.t = "notjson" THEN [ok |-> FALSE, exc |-> "JSONDecodeError", val |-> FALSE]
    ELSE IF body.t # "dict" THEN [ok |-> FALSE, exc |-> "AttributeError", val |-> FALSE]
    ELSE LET m == DictGet(body.d, "message", JStr(<<>>))
         IN  IF m.t # "str" THEN [ok |-> FALSE, exc |-> "AttributeError", val |-> FALSE]
             ELSE [ok |-> TRUE, exc |-> "", val |-> Contains(Lower(m.s), RateLimitText)]

\* a 403 whose message names the rate limit (line 60, when it evaluates)
RateLimited403(resp) ==
    /\ resp.status = 403
    /\ RateLimitMessage(resp.json).ok
    /\ RateLimitMessage(resp.json).val

\* lines 58-70: what _make_request does with a response once the rate-limit
\* state is updated. kind is "return" (with value), "retry" (with the seconds to
\* sleep first) or "raise" (with the exception).
Dispatch(resp, reset, clock) ==
    IF resp.status = 200
    THEN IF resp.json.t = "notjson"
         THEN [kind |-> "raise", exc |-> "JSONDecodeError", value |-> JNull, wait |-> 0]
         ELSE [kind |-> "return", exc |-> "", value |-> resp.json, wait |-> 0]
    ELSE IF resp.status = 403
    THEN LET m == RateLimitMessage(resp.json)
         IN  IF ~m.ok
             THEN [kind |-> "raise", exc |-> m.exc, value |-> JNull, wait |-> 0]
             ELSE IF m.val
             THEN IF SecondsUntilReset(reset, clock) < 0
                  \* time.sleep() of a negative number raises ValueError
                  THEN [kind |-> "raise", exc |-> "ValueError", value |-> JNull, wait |-> 0]
                  ELSE [kind |-> "retry", exc |-> "", value |-> JNull,
                        wait |-> SecondsUntilReset(reset, clock)]
             ELSE [kind |-> "return", exc |-> "", value |-> JDict(EmptyDict), wait |-> 0]
    ELSE [kind |-> "return", exc |-> "", value |-> JDict(EmptyDict), wait |-> 0]

(***************************************************************************)
(* get_repository_contributors, get_user_details, get_user_recent_commits: *)
(* the requests they make.                                                 *)
(***************************************************************************)
PerPage == 100
CommitsPerPage == 10

ContributorsRequest(owner, repo, pageNo) ==
    [endpoint |-> "contributors", owner |-> owner, repo |-> repo, username |-> <<>>,
     params |-> [per_page |-> PerPage, page |-> pageNo]]

UserRequest(username) ==
    [endpoint |-> "users", owner |-> <<>>, repo |-> <<>>, username |-> username,
     params |-> EmptyDict]

CommitsRequest(username, owner, repo) ==
    [endpoint |-> "commits", owner |-> owner, repo |-> repo, username |-> username,
     params |-> [author |-> username, per_page |-> CommitsPerPage]]

\* line 85: not response_data or not isinstance(response_data, list)
PageStops(response_data) ==
    \/ ~Truthy(response_data)
    \/ response_data.t # "list"

\* a loop that also stops on a page of exactly 100 items
PageIsLastOffByOne(response_data) == Len(response_data.items) <= PerPage

\* line 94: len(response_data) < 100
PageIsLast(response_data) == Len(response_data.items) < PerPage

(***************************************************************************)
(* get_user_social_links                                                   *)
(***************************************************************************)
HttpText == <<"h","t","t","p">>
DoubleSlash == <<"/","/">>
TwitterBase == <<"h","t","t","p","s",":","/","/","t","w","i","t","t","e","r",".","c","o","m","/">>
TwitterDomain == <<"t","w","i","t","t","e","r",".","c","o","m">>
XDomain == <<"x",".","c","o","m">>
LinkedInDomain == <<"l","i","n","k","e","d","i","n",".","c","o","m">>
FacebookDomain == <<"f","a","c","e","b","o","o","k",".","c","o","m">>
InstagramDomain == <<"i","n","s","t","a","g","r","a","m",".","c","o","m">>
GitHubDomain == <<"g","i","t","h","u","b",".","c","o","m">>

\* line 127: blog_url.split("//")[-1].split("/")[0].lower()
BlogDomain(blog_url) ==
    LET a == Split(blog_url, DoubleSlash)
    IN  Lower(Split(a[Len(a)], SlashStr)[1])

\* lines 130-141: the platform key a domain is recorded under
Platform(domain) ==
    IF Contains(domain, TwitterDomain) \/ Contains(domain, XDomain) THEN "Twitter"
    ELSE IF Contains(domain, LinkedInDomain) THEN "LinkedIn"
    ELSE IF Contains(domain, FacebookDomain) THEN "Facebook"
    ELSE IF Contains(domain, InstagramDomain) THEN "Instagram"
    ELSE IF Contains(domain, GitHubDomain) THEN "GitHub"
    ELSE "Website"

\* line 126: blog_url.startswith("http")
BlogIsHttp(blog_url) == StartsWith(blog_url, HttpText)

\* lines 124-141
BlogLinks(user) ==
    LET blog == DictGet(user, "blog", JNull)
    IN  IF Truthy(blog) /\ BlogIsHttp(blog.s)
        THEN DictPut(EmptyDict, Platform(BlogDomain(blog.s)), blog.s)
        ELSE EmptyDict

\* lines 144-145
ProfileLinks(user, links) ==
    LET html == DictGet(user, "html_url", JNull)
    IN  IF Truthy(html) THEN DictPut(links, "GitHub", html.s) ELSE links

\* lines 148-149
TwitterLinks(user, links) ==
    LET tw == DictGet(user, "twitter_username", JNull)
    IN  IF Truthy(tw) THEN DictPut(links, "Twitter", TwitterBase \o tw.s) ELSE links

\* the blog applied last, so that it overwrites the other two
get_user_social_links_blog_last(user) ==
    LET links == TwitterLinks(user, ProfileLinks(user, EmptyDict))
        blog == BlogLinks(user)
    IN  [k \in DOMAIN links \cup DOMAIN blog |-> IF k \in DOMAIN blog THEN blog[k] ELSE links[k]]

get_user_social_links(user) == TwitterLinks(user, ProfileLinks(user, BlogLinks(user)))

(***************************************************************************)
(* analyze_repository: latest commit date, the entry, the sort.            *)
(***************************************************************************)
\* key in v, for a JSON value v: a mapping tests its keys, a string tests for
\* the substring, a list for the element; None and numbers raise TypeError
PyIn(key, keyText, v) ==
    CASE v.t = "dict" -> [ok |-> TRUE, val |-> key \in DOMAIN v.d]
      [] v.t = "str" -> [ok |-> TRUE, val |-> Contains(v.s, keyText)]
      [] v.t = "list" -> [ok |-> TRUE, val |-> \E k \in 1..Len(v.items) : v.items[k] = JStr(keyText)]
      [] OTHER -> [ok |-> FALSE, val |-> FALSE]

AuthorText == <<"a","u","t","h","o","r">>
DateText == <<"d","a","t","e">>

\* lines 177-182: ok with the date (JNull for None), or the TypeError
LatestCommitDate(recent_commits) ==
    IF ~(Truthy(recent_commits) /\ recent_commits.t = "list" /\ Len(recent_commits.items) > 0)
    THEN [ok |-> TRUE, date |-> JNull]
    ELSE LET first == recent_commits.items[1]
         IN  IF ~(first.t = "dict" /\ "commit" \in DOMAIN first.d)
             THEN [ok |-> TRUE, date |-> JNull]
             ELSE LET commit_info == first.d["commit"]
                      hasAuthor == PyIn("author", AuthorText, commit_info)
                  IN  IF ~hasAuthor.ok THEN [ok |-> FALSE, date |-> JNull]
                      ELSE IF ~hasAuthor.val THEN [ok |-> TRUE, date |-> JNull]
                      ELSE IF commit_info.t # "dict" THEN [ok |-> FALSE, date |-> JNull]
                      ELSE LET author == commit_info.d["author"]
                               hasDate == PyIn("date", DateText, author)
                           IN  IF ~hasDate.ok THEN [ok |-> FALSE, date |-> JNull]
                               ELSE IF ~hasDate.val THEN [ok |-> TRUE, date |-> JNull]
                               ELSE IF author.t # "dict" THEN [ok |-> FALSE, date |-> JNull]
                               ELSE [ok |-> TRUE, date |-> author.d["date"]]

\* lines 187-199: the entry appended for one contributor
ContributorEntry(contributor, user, latest_commit_date) ==
    [username |-> contributor.d["login"],
     name |-> DictGet(user, "name", JStr(<<>>)),
     email |-> DictGet(user, "email", JStr(<<>>)),
     bio |-> DictGet(user, "bio", JStr(<<>>)),
     company |-> DictGet(user, "company", JStr(<<>>)),
     location |-> DictGet(user, "location", JStr(<<>>)),
     avatar_url |-> contributor.d["avatar_url"],
     profile_url |-> DictGet(user, "html_url", JStr(<<>>)),
     contributions |-> contributor.d["contributions"],
     latest_commit_date |-> latest_commit_date,
     social_links |-> get_user_social_links(user)]

\* characters in code point order, for the comparison of date strings
CodeOrder == <<"-","0","1","2","3","4","5","6","7","8","9",":","T","Z">>
Ord(c) == CHOOSE k \in 1..Len(CodeOrder) : CodeOrder[k] = c

\* a < b for Python strings
RECURSIVE StrLess(_, _)
StrLess(a, b) ==
    IF b = <<>> THEN FALSE
    ELSE IF a = <<>> THEN TRUE
    ELSE IF Head(a) = Head(b) THEN StrLess(Tail(a), Tail(b))
    ELSE Ord(Head(a)) < Ord(Head(b))

NullSortKey == <<"0">>

\* line 204: x["latest_commit_date"] or "0"
SortKey(x) ==
    IF Truthy(x.latest_commit_date) THEN x.latest_commit_date.s ELSE NullSortKey

\* an insertion that puts x before the elements with an equal key
RECURSIVE InsertDescendingUnstable(_, _)
InsertDescendingUnstable(sortedSoFar, x) ==
    IF sortedSoFar = <<>> THEN <<x>>
    ELSE IF ~StrLess(SortKey(x), SortKey(Head(sortedSoFar)))
         THEN <<x>> \o sortedSoFar
         ELSE <<Head(sortedSoFar)>> \o InsertDescendingUnstable(Tail(sortedSoFar), x)

\* where x goes in a list already in descending order: after every element
\* whose key is not smaller (sorted(..., reverse=True) keeps equal keys in input order)
RECURSIVE InsertDescending(_, _)
InsertDescending(sortedSoFar, x) ==
    IF sortedSoFar = <<>> THEN <<x>>
    ELSE IF StrLess(SortKey(Head(sortedSoFar)), SortKey(x))
         THEN <<x>> \o sortedSoFar
         ELSE <<Head(sortedSoFar)>> \o InsertDescending(Tail(sortedSoFar), x)

\* lines 202-206: sorted(contributor_details, key=..., reverse=True)
RECURSIVE SortedByLatestCommit(_)
SortedByLatestCommit(details) ==
    IF details = <<>> THEN <<>>
    ELSE InsertDescending(SortedByLatestCommit(SubSeq(details, 1, Len(details) - 1)),
                          details[Len(details)])

(***************************************************************************)
(* The program state.                                                      *)
(*   pc                      where the run is                              *)
(*   repo_url, REPO_OWNER, REPO_NAME   the reference and its parse         *)
(*   raised, raisedIn        the uncaught exception, and the function      *)
(*   rate_limit_remaining, rate_limit_reset   the analyzer's fields        *)
(*   now                     the clock, in seconds                         *)
(*   req, retTo, callAt, response, ret   the frame of _make_request        *)
(*   contributors, page      get_repository_contributors' locals           *)
(*   i, user_data, recent_commits, social_links, contributor_details,      *)
(*   sorted_contributors     analyze_repository's locals and result        *)
(*   sent, received, rateLimited   the fake API's record: the requests it  *)
(*                           got, the values each list call returned, the  *)
(*                           number of rate-limited answers it gave        *)
(***************************************************************************)
VARIABLES pc, repo_url, REPO_OWNER, REPO_NAME, raised, raisedIn,
          rate_limit_remaining, rate_limit_reset, now,
          req, retTo, callAt, response, ret,
          contributors, page, i, user_data, recent_commits, social_links,
          contributor_details, sorted_contributors,
          sent, received, rateLimited

vars == <<pc, repo_url, REPO_OWNER, REPO_NAME, raised, raisedIn,
          rate_limit_remaining, rate_limit_reset, now,
          req, retTo, callAt, response, ret,
          contributors, page, i, user_data, recent_commits, social_links,
          contributor_details, sorted_contributors,
          sent, received, rateLimited>>

topVars == <<repo_url, REPO_OWNER, REPO_NAME>>
rateVars == <<rate_limit_remaining, rate_limit_reset>>
frameVars == <<req, retTo, callAt, response, ret>>
listVars == <<contributors, page>>
enrichVars == <<i, user_data, recent_commits, social_links, contributor_details>>
apiVars == <<sent, received, rateLimited>>

\* line 11
REPO_URL == <<"h","t","t","p","s",":","/","/","g","i","t","h","u","b",".","c","o","m","/","t","e","n","s","o","r","f","l","o","w","/","t","e","n","s","o","r","f","l","o","w","/","t","r","e","e","/","m","a","s","t","e","r","/","t","e","n","s","o","r","f","l","o","w","/","p","y","t","h","o","n">>

\* the clock when the run starts
StartTime == 100

NoRequest == ContributorsRequest(<<>>, <<>>, 0)

\* a state at startPc with nothing requested yet, for a reference drawn from
\* urls and a profile drawn from users
InitState(startPc, urls, users) ==
    /\ pc = startPc
    /\ repo_url \in urls
    /\ REPO_OWNER = <<>>
    /\ REPO_NAME = <<>>
    /\ raised = None
    /\ raisedIn = ""
    /\ rate_limit_remaining = None
    /\ rate_limit_reset = None
    /\ now = StartTime
    /\ req = NoRequest
    /\ retTo = ""
    /\ callAt = StartTime
    /\ response = <<>>
    /\ ret = JNull
    /\ contributors = <<>>
    /\ page = 1
    /\ i = 0
    /\ user_data \in users
    /\ recent_commits = JNull
    /\ social_links = EmptyDict
    /\ contributor_details = <<>>
    /\ sorted_contributors = <<>>
    /\ sent = <<>>
    /\ received = <<>>
    /\ rateLimited = 0

\* the state before line 267 runs
InitRun(urls) == InitState("start", urls, {JNull})

(***************************************************************************)
(* Module top level, lines 267-274.                                        *)
(***************************************************************************)
\* line 267: REPO_OWNER, REPO_NAME = extract_repo_info(REPO_URL)
ExtractRepoInfo ==
    /\ pc = "start"
    /\ LET r == extract_repo_info(repo_url)
       IN  IF r.ok
           THEN /\ REPO_OWNER' = r.owner
                /\ REPO_NAME' = r.name
                /\ pc' = "analyze"
                /\ UNCHANGED <<raised, raisedIn>>
           ELSE /\ raised' = Some("ValueError")
                /\ raisedIn' = "extract_repo_info"
                /\ pc' = "aborted"
                /\ UNCHANGED <<REPO_OWNER, REPO_NAME>>
    /\ UNCHANGED <<repo_url, rateVars, now, frameVars, listVars, enrichVars,
                   sorted_contributors, apiVars>>

\* lines 273-274, 160, 76-79: the analyzer is built and analyze_repository
\* enters get_repository_contributors
StartAnalysis ==
    /\ pc = "analyze"
    /\ rate_limit_remaining' = None
    /\ rate_limit_reset' = None
    /\ contributors' = <<>>
    /\ page' = 1
    /\ pc' = "list_loop"
    /\ UNCHANGED <<topVars, raised, raisedIn, now, frameVars, enrichVars,
                   sorted_contributors, apiVars>>

(***************************************************************************)
(* _make_request, lines 37-70.                                             *)
(***************************************************************************)
\* a caller enters _make_request(request) and will resume at resumeAt
CallMakeRequest(request, resumeAt) ==
    /\ req' = request
    /\ retTo' = resumeAt
    /\ callAt' = now
    /\ pc' = "precheck"

\* lines 41-48: the pre-check, sleeping until the reset when the quota is used up
PreCheck ==
    /\ pc = "precheck"
    /\ now' = now + PreCheckSleep(rate_limit_remaining, rate_limit_reset, now)
    /\ pc' = "send"
    /\ UNCHANGED <<topVars, raised, raisedIn, rateVars, frameVars, listVars,
                   enrichVars, sorted_contributors, apiVars>>

\* lines 50-70: the request is sent, the answer r arrives after latency seconds,
\* the rate-limit state is updated and the answer dispatched
Send(responses, latencies) ==
    /\ pc = "send"
    /\ \E r \in responses, latency \in latencies :
          LET clock == now + latency
              updated == UpdatedRateLimit(r, rate_limit_remaining, rate_limit_reset)
              out == Dispatch(r, updated[2], clock)
          IN  /\ sent' = Append(sent, req)
              /\ response' = <<r>>
              /\ rate_limit_remaining' = updated[1]
              /\ rate_limit_reset' = updated[2]
              /\ rateLimited' = IF RateLimited403(r) THEN rateLimited + 1 ELSE rateLimited
              /\ CASE out.kind = "return" ->
                        /\ ret' = out.value
                        /\ pc' = retTo
                        /\ now' = clock
                        /\ UNCHANGED <<raised, raisedIn, callAt>>
                   [] out.kind = "retry" ->
                        \* time.sleep(wait_time), then the recursive call
                        /\ now' = clock + out.wait
                        /\ callAt' = clock + out.wait
                        /\ pc' = "precheck"
                        /\ UNCHANGED <<raised, raisedIn, ret>>
                   [] out.kind = "raise" ->
                        /\ raised' = Some(out.exc)
                        /\ raisedIn' = "_make_request"
                        /\ pc' = "crashed"
                        /\ now' = clock
                        /\ UNCHANGED <<ret, callAt>>
    /\ UNCHANGED <<topVars, req, retTo, listVars, enrichVars, sorted_contributors, received>>

(***************************************************************************)
(* get_repository_contributors, lines 72-97.                               *)
(***************************************************************************)
\* lines 82-83: params["page"] = page; self._make_request(url, params)
ListRequest ==
    /\ pc = "list_loop"
    /\ CallMakeRequest(ContributorsRequest(REPO_OWNER, REPO_NAME, page), "list_ret")
    /\ UNCHANGED <<topVars, raised, raisedIn, rateVars, now, response, ret, listVars,
                   enrichVars, sorted_contributors, apiVars>>

\* lines 85-97 and 161-164: the page is examined; the loop goes on or the
\* function returns and the enrichment loop starts
ListReturn ==
    /\ pc = "list_ret"
    /\ received' = Append(received, ret)
    /\ IF PageStops(ret)
       THEN /\ pc' = "enrich"
            /\ UNCHANGED listVars
       ELSE /\ contributors' = contributors \o ret.items
            /\ page' = page + 1
            /\ pc' = IF PageIsLast(ret) THEN "enrich" ELSE "list_loop"
    /\ IF pc' = "enrich"
       THEN /\ i' = 1
            /\ contributor_details' = <<>>
       ELSE UNCHANGED <<i, contributor_details>>
    /\ UNCHANGED <<topVars, raised, raisedIn, rateVars, now, frameVars,
                   user_data, recent_commits, social_links, sorted_contributors,
                   sent, rateLimited>>

(***************************************************************************)
(* analyze_repository, lines 153-208.                                      *)
(***************************************************************************)
\* lines 165-170: username = contributor["login"]; get_user_details(username)
UserDetailsRequest ==
    /\ pc = "enrich"
    /\ i <= Len(contributors)
    /\ CallMakeRequest(UserRequest(contributors[i].d["login"].s), "details_ret")
    /\ UNCHANGED <<topVars, raised, raisedIn, rateVars, now, response, ret, listVars,
                   enrichVars, sorted_contributors, apiVars>>

\* lines 170-174: user_data is bound; get_user_recent_commits(username, owner, repo)
RecentCommitsRequest ==
    /\ pc = "details_ret"
    /\ user_data' = ret
    /\ CallMakeRequest(CommitsRequest(contributors[i].d["login"].s, REPO_OWNER, REPO_NAME),
                       "commits_ret")
    /\ UNCHANGED <<topVars, raised, raisedIn, rateVars, now, response, ret, listVars,
                   i, recent_commits, social_links, contributor_details,
                   sorted_contributors, apiVars>>

\* lines 173-199: recent_commits is bound, the latest commit date and the social
\* links are derived and the entry appended
EnrichContributor ==
    /\ pc = "commits_ret"
    /\ recent_commits' = ret
    /\ LET latest == LatestCommitDate(ret)
       IN  IF latest.ok
           THEN /\ social_links' = get_user_social_links(user_data.d)
                /\ contributor_details' =
                      Append(contributor_details,
                             ContributorEntry(contributors[i], user_data.d, latest.date))
                /\ i' = i + 1
                /\ pc' = "enrich"
                /\ UNCHANGED <<raised, raisedIn>>
           ELSE /\ raised' = Some("TypeError")
                /\ raisedIn' = "analyze_repository"
                /\ pc' = "crashed"
                /\ UNCHANGED <<social_links, contributor_details, i>>
    /\ UNCHANGED <<topVars, rateVars, now, frameVars, listVars, user_data,
                   sorted_contributors, apiVars>>

\* lines 201-208: the loop is over; the list is sorted and returned
SortContributors ==
    /\ pc = "enrich"
    /\ i > Len(contributors)
    /\ sorted_contributors' = SortedByLatestCommit(contributor_details)
    /\ pc' = "done"
    /\ UNCHANGED <<topVars, raised, raisedIn, rateVars, now, frameVars, listVars,
                   enrichVars, apiVars>>

(***************************************************************************)
(* The fake API: the answers it may give to a request.                     *)
(***************************************************************************)
Resp(status, json, remaining, reset) ==
    [status |-> status, json |-> json, remaining |-> remaining, reset |-> reset]

\* headers of an API far from its limit
AmpleQuota == Some(4999)
FarReset == Some(StartTime + 3600)

Ok(json) == Resp(200, json, AmpleQuota, FarReset)

DigitChars == <<"0","1","2","3","4","5","6","7","8","9">>

RECURSIVE Decimal(_)
Decimal(n) ==
    IF n < 10 THEN <<DigitChars[n + 1]>>
    ELSE Decimal(n \div 10) \o <<DigitChars[(n % 10) + 1]>>

\* the k-th contributor of page p of the list endpoint
ContributorItem(p, k) ==
    JDict([login |-> JStr(<<"u">> \o Decimal(p) \o <<"-">> \o Decimal(k)),
           avatar_url |-> JStr(<<"a">> \o Decimal(p) \o <<"-">> \o Decimal(k)),
           contributions |-> JInt(k)])

ListPage(p, n) == JList([k \in 1..n |-> ContributorItem(p, k)])

NotFoundBody == JDict([message |-> JStr(<<"N","o","t"," ","F","o","u","n","d">>)])
RateLimitBody == JDict([message |-> JStr(<<"A","P","I"," ","R","a","t","e"," ","L","i","m","i","t"," ","e","x","c","e","e","d","e","d">>)])

(***************************************************************************)
(* SpecFetch: get_repository_contributors against a list endpoint that     *)
(* serves a sequence of pages; at most MaxFullPages pages are full.        *)
(***************************************************************************)
PageLengths(p) ==
    IF p <= MaxFullPages THEN {0, 1, 37, 99, 100, 101} ELSE {0, 1, 37, 99}

PageBodies(p) ==
    {ListPage(p, n) : n \in PageLengths(p)} \cup {JDict(EmptyDict), NotFoundBody, JNull}

SendPage == Send({Ok(b) : b \in PageBodies(req.params.page)}, {0})

InitFetch == InitRun({REPO_URL})

NextFetch ==
    \/ ExtractRepoInfo
    \/ StartAnalysis
    \/ ListRequest
    \/ PreCheck
    \/ SendPage
    \/ ListReturn

SpecFetch == InitFetch /\ [][NextFetch]_vars

(* C1: get_repository_contributors asks for pages 1, 2, 3, ... in order,   *)
(* goes on after a page only when it is a list of at least 100 items, stops *)
(* right after the first page that is shorter, empty or not a list, returns *)
(* the concatenation in order of the list pages it received, and has then   *)
(* issued as many list requests as the index of that first stopping page.   *)
StoppingPage(body) ==
    \/ body.t # "list"
    \/ Len(body.items) < 100

RECURSIVE ConcatListPages(_)
ConcatListPages(pages) ==
    IF pages = <<>> THEN <<>>
    ELSE IF Head(pages).t = "list"
         THEN Head(pages).items \o ConcatListPages(Tail(pages))
         ELSE ConcatListPages(Tail(pages))

C1_Pagination ==
    /\ \A k \in 1..Len(sent) :
          sent[k] = ContributorsRequest(REPO_OWNER, REPO_NAME, k)
    /\ pc = "list_ret" => ret = response[1].json
    /\ \A k \in 1..(Len(received) - 1) : ~StoppingPage(received[k])
    /\ pc \in {"list_loop", "precheck", "send", "list_ret"} =>
          \A k \in 1..Len(received) : ~StoppingPage(received[k])
    /\ pc = "enrich" =>
          /\ Len(received) >= 1
          /\ StoppingPage(received[Len(received)])
          /\ Len(sent) = Len(received)
          /\ contributors = ConcatListPages(received)

\* pages of 100, 100 and 37 items: 237 items and exactly 3 requests
C1_Witness ==
    /\ pc = "enrich"
    /\ Len(sent) = 3
    /\ Len(contributors) = 237
    /\ \A k \in 1..3 : received[k].t = "list"
    /\ Len(received[1].items) = 100
    /\ Len(received[2].items) = 100
    /\ Len(received[3].items) = 37

(***************************************************************************)
(* SpecParse: the whole run for a bounded set of repository references;    *)
(* the list endpoint answers with an empty page.                           *)
(***************************************************************************)
NameChars == {"t", "f"}

\* owner and repository names: 1 to MaxNameLen characters
Names == UNION {[1..n -> NameChars] : n \in 1..MaxNameLen}

ExtraPath == <<"/","t","r","e","e","/","m","a","s","t","e","r">>

HttpsForm(owner, name) == HttpsPrefix \o owner \o SlashStr \o name
SshForm(owner, name) == SshPrefix \o owner \o SlashStr \o name
ShortForm(owner, name) == owner \o SlashStr \o name

\* with surrounding whitespace
Padded(s) == {s, <<" ">> \o s, s \o <<"\n">>, <<" ", "\t">> \o s \o <<" ">>}

\* with extra path segments, with one trailing slash
Extended(s) == {s, s \o SlashStr, s \o ExtraPath, s \o ExtraPath \o SlashStr}

\* the references that denote owner/name
RefsOf(owner, name) ==
    UNION {Padded(e) : e \in UNION {Extended(f) :
        f \in {HttpsForm(owner, name), SshForm(owner, name), ShortForm(owner, name)}}}

\* references with a single path segment, or none
ShortRefs ==
    UNION {Padded(e) : e \in
        {<<>>} \cup UNION {{n, n \o SlashStr, HttpsPrefix \o n, SshPrefix \o n,
                            HttpsPrefix \o n \o SlashStr} : n \in Names}}

RepoRefs == ShortRefs \cup UNION {RefsOf(o, n) : o \in Names, n \in Names}

SendEmptyPage == Send({Ok(ListPage(1, 0))}, {0})

InitParse == InitRun(RepoRefs)

NextParse ==
    \/ ExtractRepoInfo
    \/ StartAnalysis
    \/ ListRequest
    \/ PreCheck
    \/ SendEmptyPage
    \/ ListReturn
    \/ SortContributors

SpecParse == InitParse /\ [][NextParse]_vars

(* C8: the HTTPS form, the HTTPS form with one trailing "/", the SSH form   *)
(* and the shorthand of the same owner and name all make extract_repo_info  *)
(* return (owner, name), also with surrounding whitespace and with extra    *)
(* path segments after the name. Checked where extract_repo_info has just   *)
(* returned or raised.                                                      *)
C8_SameRepoSamePair ==
    pc \in {"analyze", "aborted"} =>
        \A o \in Names, n \in Names :
            repo_url \in RefsOf(o, n) =>
                /\ raised = None
                /\ REPO_OWNER = o
                /\ REPO_NAME = n

\* the SSH form, padded and with extra segments, has been parsed
C8_Witness ==
    /\ pc = "analyze"
    /\ repo_url = <<" ", "\t">> \o SshForm(<<"t","f">>, <<"f">>) \o ExtraPath \o SlashStr \o <<" ">>
    /\ REPO_OWNER = <<"t","f">>
    /\ REPO_NAME = <<"f">>

(* C9: a reference with fewer than two path segments after trimming and     *)
(* prefix stripping makes extract_repo_info fail (ValueError), and the run  *)
(* stops there with no HTTP request issued.                                 *)
C9_ShortRefAborts ==
    /\ (repo_url \in ShortRefs /\ pc # "start") =>
          /\ pc = "aborted"
          /\ raised = Some("ValueError")
          /\ raisedIn = "extract_repo_info"
          /\ sent = <<>>
    /\ pc = "aborted" => sent = <<>>

\* the single-segment reference "t" was rejected
C9_Witness ==
    /\ pc = "aborted"
    /\ repo_url = <<"t">>
    /\ sent = <<>>

(***************************************************************************)
(* SpecLinks: get_user_social_links applied to a bounded set of profiles.  *)
(***************************************************************************)
BlogIsHttpText(text) == StartsWith(text, <<"h","t","t","p">>)

BlogTwitterFoo == <<"h","t","t","p","s",":","/","/","t","w","i","t","t","e","r",".","c","o","m","/","f","o","o">>
HtmlUrlFoo == <<"h","t","t","p","s",":","/","/","g","i","t","h","u","b",".","c","o","m","/","f","o","o">>
TwitterNameFoo2 == <<"f","o","o","2">>

BlogTexts ==
    {<<"h","t","t","p","s",":","/","/","t","w","i","t","t","e","r",".","c","o","m","/","f","o","o">>,
     <<"h","t","t","p",":","/","/","x",".","c","o","m","/","f","o","o">>,
     <<"h","t","t","p","s",":","/","/","w","w","w",".","l","i","n","k","e","d","i","n",".","c","o","m","/","i","n","/","f","o","o">>,
     <<"h","t","t","p","s",":","/","/","f","a","c","e","b","o","o","k",".","c","o","m","/","f","o","o">>,
     <<"h","t","t","p","s",":","/","/","i","n","s","t","a","g","r","a","m",".","c","o","m","/","f","o","o">>,
     <<"h","t","t","p","s",":","/","/","g","i","t","h","u","b",".","c","o","m","/","b","a","r">>,
     <<"h","t","t","p","s",":","/","/","e","x","a","m","p","l","e",".","o","r","g","/","m","e">>,
     <<"e","x","a","m","p","l","e",".","o","r","g">>,
     <<"h","t","t","p","b","i","n",".","o","r","g","/","m","e">>,
     <<"H","T","T","P","S",":","/","/","t","w","i","t","t","e","r",".","c","o","m","/","f","o","o">>,
     <<"h","t","t","p","s",":","/","/","T","w","i","t","t","e","r",".","C","O","M","/","f","o","o">>,
     <<"h","t","t","p","s",":","/","/","n","e","t","f","l","i","x",".","c","o","m","/","f","o","o">>}

\* a profile field: absent, null, empty or one of texts
FieldChoices(texts) == {<<>>, <<JNull>>, <<JStr(<<>>)>>} \cup {<<JStr(x)>> : x \in texts}

\* the profile mapping with the fields that are not absent
ProfileOf(blog, html, tw) ==
    [k \in {x \in {"blog", "html_url", "twitter_username"} :
               \/ (x = "blog" /\ blog # <<>>)
               \/ (x = "html_url" /\ html # <<>>)
               \/ (x = "twitter_username" /\ tw # <<>>)} |->
        CASE k = "blog" -> blog[1]
          [] k = "html_url" -> html[1]
          [] k = "twitter_username" -> tw[1]]

Profiles ==
    {JDict(ProfileOf(b, h, t)) :
        b \in FieldChoices(BlogTexts),
        h \in FieldChoices({HtmlUrlFoo}),
        t \in FieldChoices({TwitterNameFoo2})}

InitLinks == InitState("links", {REPO_URL}, Profiles)

\* lines 117-151, called on user_data
GetUserSocialLinks ==
    /\ pc = "links"
    /\ social_links' = get_user_social_links(user_data.d)
    /\ pc' = "links_done"
    /\ UNCHANGED <<topVars, raised, raisedIn, rateVars, now, frameVars, listVars,
                   i, user_data, recent_commits, contributor_details,
                   sorted_contributors, apiVars>>

NextLinks == GetUserSocialLinks

SpecLinks == InitLinks /\ [][NextLinks]_vars

\* a field that is there and not empty
Present(user, key) == key \in DOMAIN user /\ Truthy(user[key])

HttpUrlSchemes == {<<"h","t","t","p",":","/","/">>, <<"h","t","t","p","s",":","/","/">>}
StartsWithHttpScheme(text) == \E scheme \in HttpUrlSchemes : StartsWith(text, scheme)

PlatformKeys == {"Twitter", "LinkedIn", "Facebook", "Instagram", "GitHub", "Website"}
KnownDomains ==
    {TwitterDomain, XDomain, LinkedInDomain, FacebookDomain, InstagramDomain, GitHubDomain}

\* the keys of links that neither html_url nor twitter_username set
BlogKeys(user, links) ==
    DOMAIN links \ ({k \in {"GitHub"} : Present(user, "html_url")}
                    \cup {k \in {"Twitter"} : Present(user, "twitter_username")})

\* what C10 says of the links derived from a profile, given what it takes
\* for a blog text to be recorded
LinksAsClaimed(user, links, Recordable(_)) ==
    /\ DOMAIN links \subseteq PlatformKeys
    /\ Present(user, "html_url") =>
          "GitHub" \in DOMAIN links /\ links["GitHub"] = user["html_url"].s
    /\ Present(user, "twitter_username") =>
          "Twitter" \in DOMAIN links
          /\ links["Twitter"] = TwitterBase \o user["twitter_username"].s
    /\ Cardinality(BlogKeys(user, links)) <= 1
    /\ \A k \in BlogKeys(user, links) :
          /\ Present(user, "blog")
          /\ links[k] = user["blog"].s
          /\ Recordable(user["blog"].s)
          /\ (k = "Website") <=>
                ~\E d \in KnownDomains : Contains(BlogDomain(user["blog"].s), d)
    /\ (Present(user, "blog") /\ Recordable(user["blog"].s)) =>
          \/ BlogKeys(user, links) # {}
          \/ /\ Present(user, "html_url")
             /\ Contains(BlogDomain(user["blog"].s), GitHubDomain)
          \/ /\ Present(user, "twitter_username")
             /\ \E d \in {TwitterDomain, XDomain} : Contains(BlogDomain(user["blog"].s), d)

(* C10 as stated: the links hold html_url under GitHub and the canonical    *)
(* Twitter URL under Twitter whenever those fields are present, whatever    *)
(* the blog was classified as, and the blog is recorded only when it starts *)
(* with an HTTP scheme (http:// or https://), under exactly one platform    *)
(* key, Website when no known platform matches.                             *)
C10_AsStated ==
    pc = "links_done" =>
        LinksAsClaimed(user_data.d, social_links, StartsWithHttpScheme)

(* C10, amended: the same, with the blog recorded exactly when it starts    *)
(* with the four characters "http", which "httpbin.org/me" does too.        *)
C10_SocialLinks ==
    pc = "links_done" =>
        LinksAsClaimed(user_data.d, social_links, BlogIsHttpText)

\* blog=https://twitter.com/foo, html_url=https://github.com/foo,
\* twitter_username=foo2 gave exactly the Twitter and GitHub entries
C10_Witness ==
    /\ pc = "links_done"
    /\ user_data = JDict([blog |-> JStr(BlogTwitterFoo), html_url |-> JStr(HtmlUrlFoo),
                          twitter_username |-> JStr(TwitterNameFoo2)])
    /\ social_links = [Twitter |-> TwitterBase \o TwitterNameFoo2, GitHub |-> HtmlUrlFoo]


(***************************************************************************)
(* SpecSort: the whole run with up to MaxSorted contributors whose commits *)
(* answers carry a date or none.                                           *)
(***************************************************************************)
Date20240101 == <<"2","0","2","4","-","0","1","-","0","1","T","0","0",":","0","0",":","0","0","Z">>
Date20240301 == <<"2","0","2","4","-","0","3","-","0","1","T","0","0",":","0","0",":","0","0","Z">>
Date00010101 == <<"0","0","0","1","-","0","1","-","0","1","T","0","0",":","0","0",":","0","0","Z">>
CommitDates == {Date20240101, Date20240301, Date00010101}

\* an entry of the commits endpoint with the given author mapping
CommitBy(author) ==
    JDict([sha |-> JStr(<<"c","0">>), commit |-> JDict([author |-> author])])

\* a well-formed entry whose author date is date
CommitOn(date) == CommitBy(JDict([name |-> JStr(<<"A","d","a">>), date |-> date]))

PlainProfile ==
    JDict([login |-> JStr(<<"u">>), name |-> JStr(<<"A","d","a">>),
           html_url |-> JStr(HtmlUrlFoo), blog |-> JStr(<<>>)])

SortAnswers(request) ==
    CASE request.endpoint = "contributors" ->
            {Ok(ListPage(1, n)) : n \in 0..MaxSorted}
      [] request.endpoint = "users" -> {Ok(PlainProfile)}
      [] request.endpoint = "commits" ->
            {Ok(JList(<<>>))}
            \cup {Ok(JList(<<CommitOn(JStr(d)), CommitOn(JStr(Date00010101))>>)) : d \in CommitDates}

SendSort == Send(SortAnswers(req), {0})

InitSort == InitRun({REPO_URL})

NextSort ==
    \/ ExtractRepoInfo
    \/ StartAnalysis
    \/ ListRequest
    \/ PreCheck
    \/ SendSort
    \/ ListReturn
    \/ UserDetailsRequest
    \/ RecentCommitsRequest
    \/ EnrichContributor
    \/ SortContributors

SpecSort == InitSort /\ [][NextSort]_vars

HasDate(x) == x.latest_commit_date # JNull

SameDate(x, y) == x.latest_commit_date = y.latest_commit_date

\* the place of entry x in the enrichment order
InputIndex(x) ==
    CHOOSE k \in 1..Len(contributor_details) : contributor_details[k] = x

(* C5: the list analyze_repository returns holds the enriched contributors  *)
(* ordered by latest_commit_date descending under string comparison, every  *)
(* contributor without a date after every contributor with one, and         *)
(* contributors with equal dates, or both without, in their input order.    *)
C5_SortedByDate ==
    pc = "done" =>
        /\ Len(sorted_contributors) = Len(contributor_details)
        /\ \A k \in 1..Len(contributor_details) :
              \E a \in 1..Len(sorted_contributors) :
                  sorted_contributors[a] = contributor_details[k]
        /\ \A a, b \in 1..Len(sorted_contributors) :
              a < b =>
                  LET x == sorted_contributors[a]
                      y == sorted_contributors[b]
                  IN  /\ HasDate(y) => HasDate(x)
                      /\ (HasDate(x) /\ HasDate(y)) =>
                            ~StrLess(x.latest_commit_date.s, y.latest_commit_date.s)
                      /\ SameDate(x, y) => InputIndex(x) < InputIndex(y)

\* dates [2024-01-01, null, 2024-03-01, null] came out as #3, #1, #2, #4
C5_Witness ==
    /\ pc = "done"
    /\ Len(contributor_details) = 4
    /\ contributor_details[1].latest_commit_date = JStr(Date20240101)
    /\ contributor_details[2].latest_commit_date = JNull
    /\ contributor_details[3].latest_commit_date = JStr(Date20240301)
    /\ contributor_details[4].latest_commit_date = JNull
    /\ sorted_contributors = <<contributor_details[3], contributor_details[1],
                               contributor_details[2], contributor_details[4]>>

(***************************************************************************)
(* SpecRate: the whole run with one contributor against an API that varies *)
(* its rate-limit headers, answers late, fails, and rate-limits at most    *)
(* MaxRateLimited requests.                                                *)
(***************************************************************************)
RemainingHeaders == {None, Some(1), Some(2)}
ResetHeaders == {None, Some(StartTime - 50), Some(StartTime - 3), Some(StartTime + 10)}

OneCommit == JList(<<CommitOn(JStr(Date20240101))>>)

RateBody(request) ==
    CASE request.endpoint = "contributors" -> ListPage(1, 1)
      [] request.endpoint = "users" -> PlainProfile
      [] request.endpoint = "commits" -> OneCommit

RateAnswers(request, limited) ==
    {Resp(st, IF st = 200 THEN RateBody(request)
              ELSE IF st = 403 THEN RateLimitBody ELSE NotFoundBody, rem, rst) :
        st \in {200, 404} \cup (IF limited < MaxRateLimited THEN {403} ELSE {}),
        rem \in RemainingHeaders, rst \in ResetHeaders}

SendRate == Send(RateAnswers(req, rateLimited), 0..MaxLatency)

InitRate == InitRun({REPO_URL})

NextRate ==
    \/ ExtractRepoInfo
    \/ StartAnalysis
    \/ ListRequest
    \/ PreCheck
    \/ SendRate
    \/ ListReturn
    \/ UserDetailsRequest
    \/ RecentCommitsRequest
    \/ EnrichContributor
    \/ SortContributors

SpecRate == InitRate /\ [][NextRate]_vars

(* C2: a rate-limited response (403 whose message contains "rate limit") is *)
(* never surfaced as a failure: whatever its rate-limit headers, the client *)
(* waits and retries the identical request instead of raising or returning. *)
C2_RateLimitNeverSurfaced ==
    (response # <<>> /\ RateLimited403(response[1])) =>
        /\ raised = None
        /\ pc \in {"precheck", "send"}
        /\ req = sent[Len(sent)]

(* C3: when _make_request is about to send, it has blocked since the call   *)
(* for exactly reset_epoch - now + 5 seconds if the known remaining quota   *)
(* is at most 1 and that value is positive, and not at all otherwise        *)
(* (remaining unknown, remaining above 1, or a value that is not positive). *)
C3_PreCheckBlocks ==
    pc = "send" =>
        now - callAt =
            IF rate_limit_remaining = None THEN 0
            ELSE IF rate_limit_remaining[1] > 1 THEN 0
            ELSE IF rate_limit_reset[1] - callAt + 5 > 0
                 THEN rate_limit_reset[1] - callAt + 5
                 ELSE 0

\* remaining = 1 and reset_epoch = now + 10: the request goes out 15 seconds
\* after the call
C3_Witness ==
    /\ pc = "send"
    /\ rate_limit_remaining = Some(1)
    /\ rate_limit_reset = Some(callAt + 10)
    /\ now = callAt + 15

\* the value a header leaves in RateLimitState
HeaderOrZero(h) == IF h = <<>> THEN <<0>> ELSE h

(* C6: remaining and reset_epoch are absent until the first response is     *)
(* received; after that they are the X-RateLimit-Remaining and              *)
(* X-RateLimit-Reset values of the latest response, whatever its status,    *)
(* with 0 for an absent header; only receiving a response changes them.     *)
C6_RateLimitState ==
    /\ [](sent = <<>> => (rate_limit_remaining = <<>> /\ rate_limit_reset = <<>>))
    /\ [](sent # <<>> =>
            /\ response # <<>>
            /\ rate_limit_remaining = HeaderOrZero(response[1].remaining)
            /\ rate_limit_reset = HeaderOrZero(response[1].reset))
    /\ [][(rate_limit_remaining' # rate_limit_remaining \/ rate_limit_reset' # rate_limit_reset)
            => (pc = "send" /\ sent' = Append(sent, req) /\ response' # <<>>
                /\ rate_limit_remaining' = HeaderOrZero(response'[1].remaining)
                /\ rate_limit_reset' = HeaderOrZero(response'[1].reset))]_vars

\* a 404 without X-RateLimit-Remaining, after an earlier response, left 0 and its reset
C6_Witness ==
    /\ Len(sent) >= 2
    /\ response[1].status = 404
    /\ response[1].remaining = None
    /\ response[1].reset = Some(StartTime + 10)
    /\ rate_limit_remaining = Some(0)
    /\ rate_limit_reset = Some(StartTime + 10)

(***************************************************************************)
(* SpecAnalyze: the whole run with up to MaxContributors contributors      *)
(* against an API whose calls may fail (404, 403 without a rate-limit      *)
(* message, 403 and 500 with a body that is not JSON) and whose commits    *)
(* answers may lack the nested fields.                                     *)
(***************************************************************************)
ForbiddenBody == JDict([message |-> JStr(<<"F","o","r","b","i","d","d","e","n">>)])

\* answers with a status other than 200 and no rate-limit message; they carry
\* no rate-limit headers
ErrorAnswers ==
    {Resp(404, NotFoundBody, None, None),
     Resp(403, ForbiddenBody, None, None),
     Resp(403, NotJson, None, None),
     Resp(500, NotJson, None, None)}

\* a profile whose optional fields are null
SparseProfile ==
    JDict([login |-> JStr(<<"u">>), name |-> JNull, email |-> JNull,
           html_url |-> JStr(HtmlUrlFoo), blog |-> JStr(BlogTwitterFoo),
           twitter_username |-> JStr(TwitterNameFoo2)])

\* first entries of a commits answer that lack an expected nested field
MalformedEntries ==
    {JStr(<<"c","0">>),
     JDict([sha |-> JStr(<<"c","0">>)]),
     JDict([commit |-> JNull]),
     JDict([commit |-> JDict(EmptyDict)]),
     CommitBy(JNull),
     CommitBy(JDict([name |-> JStr(<<"A","d","a">>)])),
     CommitOn(JNull)}

CommitsBodies ==
    {JList(<<>>), NotFoundBody,
     JList(<<CommitOn(JStr(Date20240301)), CommitOn(JStr(Date20240101))>>)}
    \cup {JList(<<e, CommitOn(JStr(Date20240101))>>) : e \in MalformedEntries}

AnalyzeAnswers(request) ==
    ErrorAnswers \cup
    CASE request.endpoint = "contributors" ->
            {Ok(ListPage(1, n)) : n \in 0..MaxContributors}
      [] request.endpoint = "users" -> {Ok(PlainProfile), Ok(SparseProfile)}
      [] request.endpoint = "commits" -> {Ok(b) : b \in CommitsBodies}

SendAnalyze == Send(AnalyzeAnswers(req), {0})

InitAnalyze == InitRun({REPO_URL})

NextAnalyze ==
    \/ ExtractRepoInfo
    \/ StartAnalysis
    \/ ListRequest
    \/ PreCheck
    \/ SendAnalyze
    \/ ListReturn
    \/ UserDetailsRequest
    \/ RecentCommitsRequest
    \/ EnrichContributor
    \/ SortContributors

SpecAnalyze == InitAnalyze /\ [][NextAnalyze]_vars

\* a response with a status other than 200 that is not a rate-limit 403
PlainError(resp) ==
    /\ resp.status # 200
    /\ ~RateLimited403(resp)

EmptyText == JStr(<<>>)

(* C4: a call answered with a non-200 status that is not a rate-limit 403   *)
(* raises nothing and returns an empty mapping; a failed list call leaves   *)
(* the contributors collected so far, a failed profile call gives an entry  *)
(* with empty profile fields, a failed commits call an entry whose          *)
(* latest_commit_date is null.                                              *)
C4_ErrorsReturnEmpty ==
    (response # <<>> /\ PlainError(response[1])) =>
        /\ raisedIn # "_make_request"
        /\ pc \in {"list_ret", "details_ret", "commits_ret"} => ret = JDict(EmptyDict)
        /\ (pc = "enrich" /\ sent[Len(sent)].endpoint = "contributors") =>
              contributors = ConcatListPages(SubSeq(received, 1, Len(received) - 1))
        /\ (pc = "enrich" /\ sent[Len(sent)].endpoint = "commits") =>
              contributor_details[i - 1].latest_commit_date = JNull
        /\ (pc = "enrich" /\ i > 1 /\ user_data = JDict(EmptyDict)) =>
              /\ contributor_details[i - 1].name = EmptyText
              /\ contributor_details[i - 1].email = EmptyText
              /\ contributor_details[i - 1].bio = EmptyText
              /\ contributor_details[i - 1].company = EmptyText
              /\ contributor_details[i - 1].location = EmptyText
              /\ contributor_details[i - 1].profile_url = EmptyText
              /\ contributor_details[i - 1].social_links = EmptyDict

\* the first entry of a commits answer has every expected nested field, none null
WellFormedEntry(entry) ==
    /\ entry.t = "dict"
    /\ "commit" \in DOMAIN entry.d
    /\ entry.d["commit"].t = "dict"
    /\ "author" \in DOMAIN entry.d["commit"].d
    /\ entry.d["commit"].d["author"].t = "dict"
    /\ "date" \in DOMAIN entry.d["commit"].d["author"].d
    /\ entry.d["commit"].d["author"].d["date"] # JNull

\* analyze_repository has just dealt with a non-empty list of commits
CommitsHandled ==
    /\ recent_commits.t = "list"
    /\ recent_commits.items # <<>>
    /\ \/ (pc = "enrich" /\ i > 1)
       \/ (pc = "crashed" /\ raisedIn = "analyze_repository")

(* C7: when the first entry of the commits answer lacks an expected nested  *)
(* field (not a mapping, no "commit", no "author", no "date", or one of     *)
(* them null) the contributor gets latest_commit_date null and nothing is   *)
(* raised; when it is well-formed the date is that entry's author date.     *)
C7_MalformedCommitIsNull ==
    CommitsHandled =>
        /\ raised = None
        /\ contributor_details[i - 1].latest_commit_date =
              IF WellFormedEntry(recent_commits.items[1])
              THEN recent_commits.items[1].d["commit"].d["author"].d["date"]
              ELSE JNull

=============================================================================
